---- MODULE Spec2Model ----
(***************************************************************************)
(* AES-128 in ECB mode, as implemented by aes.cpp: the key schedule        *)
(* (expandKey, key_schedule_core), the four state transforms (subBytes,    *)
(* shiftRows, mixColumns, addRoundKey), the block adapters (populateState, *)
(* populateRoundKey, populateOutput) and the round driver and read loop of *)
(* main.  C arrays are functions over their 0-based index ranges; an       *)
(* unsigned char is an integer in 0..255.                                  *)
(***************************************************************************)
EXTENDS Integers, Sequences, FiniteSets, TLC

VARIABLES
    input,                \* the whole byte stream on standard input (a sequence)
    pos,                  \* number of bytes of input already extracted by cin.read
    good,                 \* cin is still good (no failed read so far)
    pc,                   \* position of main
    key,                  \* key[16]
    expanded_key,         \* expanded_key[176]; its domain is the set of bytes written so far
    rcon_i,               \* expandKey's rcon_i
    current_size_of_key,  \* expandKey's current_size_of_key
    rcon_used,            \* history: the rcon indices read by key_schedule_core, in order
    state,                \* the 4x4 state matrix
    round_key,            \* the 4x4 round key matrix
    to_encrypt,           \* to_encrypt[16]
    iter,                 \* round counter of the round driver (0 initial, 1..9 loop, 10 last)
    trace,                \* history: transforms applied to state for the current block
    rks,                  \* history: expanded-key offsets/matrices given to addRoundKey
    output,               \* the byte stream written to standard output (a sequence)
    nblocks,              \* history: number of successful block reads
    orig,                 \* harness: the state a transform sequence started from
    applied,              \* harness: the transform being applied ("none" before the first)
    count                 \* harness: how many times it has been applied

vars == << input, pos, good, pc, key, expanded_key, rcon_i, current_size_of_key,
           rcon_used, state, round_key, to_encrypt, iter, trace, rks, output,
           nblocks, orig, applied, count >>

-----------------------------------------------------------------------------
(* Bounds of the model. *)

\* at most this many complete plaintext blocks follow the key
MaxBlocks == 2
\* a short key lacks at most this many of its 16 bytes
MaxMissing == 2
\* the harness applies a transform at most this many times in a row
MaxApply == 4

-----------------------------------------------------------------------------
(* Byte arithmetic: C's ^ and & on unsigned char operands. *)

Byte == 0..255
Idx4 == 0..3

Bit(x, i) == (x \div (2^i)) % 2

Xor4 ==
    [a \in 0..15 |-> [b \in 0..15 |->
        ((Bit(a,0) + Bit(b,0)) % 2)     + ((Bit(a,1) + Bit(b,1)) % 2) * 2 +
        ((Bit(a,2) + Bit(b,2)) % 2) * 4 + ((Bit(a,3) + Bit(b,3)) % 2) * 8]]

And4 ==
    [a \in 0..15 |-> [b \in 0..15 |->
        (Bit(a,0) * Bit(b,0))     + (Bit(a,1) * Bit(b,1)) * 2 +
        (Bit(a,2) * Bit(b,2)) * 4 + (Bit(a,3) * Bit(b,3)) * 8]]

\* a ^ b on bytes
xor(a, b) == Xor4[a \div 16][b \div 16] * 16 + Xor4[a % 16][b % 16]

\* a & b on bytes
and(a, b) == And4[a \div 16][b \div 16] * 16 + And4[a % 16][b % 16]

-----------------------------------------------------------------------------
(* The lookup tables. *)

sBoxData == <<
    \h63, \h7c, \h77, \h7b, \hf2, \h6b, \h6f, \hc5, \h30, \h01, \h67, \h2b, \hfe, \hd7, \hab, \h76,
    \hca, \h82, \hc9, \h7d, \hfa, \h59, \h47, \hf0, \had, \hd4, \ha2, \haf, \h9c, \ha4, \h72, \hc0,
    \hb7, \hfd, \h93, \h26, \h36, \h3f, \hf7, \hcc, \h34, \ha5, \he5, \hf1, \h71, \hd8, \h31, \h15,
    \h04, \hc7, \h23, \hc3, \h18, \h96, \h05, \h9a, \h07, \h12, \h80, \he2, \heb, \h27, \hb2, \h75,
    \h09, \h83, \h2c, \h1a, \h1b, \h6e, \h5a, \ha0, \h52, \h3b, \hd6, \hb3, \h29, \he3, \h2f, \h84,
    \h53, \hd1, \h00, \hed, \h20, \hfc, \hb1, \h5b, \h6a, \hcb, \hbe, \h39, \h4a, \h4c, \h58, \hcf,
    \hd0, \hef, \haa, \hfb, \h43, \h4d, \h33, \h85, \h45, \hf9, \h02, \h7f, \h50, \h3c, \h9f, \ha8,
    \h51, \ha3, \h40, \h8f, \h92, \h9d, \h38, \hf5, \hbc, \hb6, \hda, \h21, \h10, \hff, \hf3, \hd2,
    \hcd, \h0c, \h13, \hec, \h5f, \h97, \h44, \h17, \hc4, \ha7, \h7e, \h3d, \h64, \h5d, \h19, \h73,
    \h60, \h81, \h4f, \hdc, \h22, \h2a, \h90, \h88, \h46, \hee, \hb8, \h14, \hde, \h5e, \h0b, \hdb,
    \he0, \h32, \h3a, \h0a, \h49, \h06, \h24, \h5c, \hc2, \hd3, \hac, \h62, \h91, \h95, \he4, \h79,
    \he7, \hc8, \h37, \h6d, \h8d, \hd5, \h4e, \ha9, \h6c, \h56, \hf4, \hea, \h65, \h7a, \hae, \h08,
    \hba, \h78, \h25, \h2e, \h1c, \ha6, \hb4, \hc6, \he8, \hdd, \h74, \h1f, \h4b, \hbd, \h8b, \h8a,
    \h70, \h3e, \hb5, \h66, \h48, \h03, \hf6, \h0e, \h61, \h35, \h57, \hb9, \h86, \hc1, \h1d, \h9e,
    \he1, \hf8, \h98, \h11, \h69, \hd9, \h8e, \h94, \h9b, \h1e, \h87, \he9, \hce, \h55, \h28, \hdf,
    \h8c, \ha1, \h89, \h0d, \hbf, \he6, \h42, \h68, \h41, \h99, \h2d, \h0f, \hb0, \h54, \hbb, \h16
    >>

rconData == <<
    \h8d, \h01, \h02, \h04, \h08, \h10, \h20, \h40, \h80, \h1b, \h36, \h6c, \hd8, \hab, \h4d, \h9a,
    \h2f, \h5e, \hbc, \h63, \hc6, \h97, \h35, \h6a, \hd4, \hb3, \h7d, \hfa, \hef, \hc5, \h91, \h39,
    \h72, \he4, \hd3, \hbd, \h61, \hc2, \h9f, \h25, \h4a, \h94, \h33, \h66, \hcc, \h83, \h1d, \h3a,
    \h74, \he8, \hcb, \h8d, \h01, \h02, \h04, \h08, \h10, \h20, \h40, \h80, \h1b, \h36, \h6c, \hd8,
    \hab, \h4d, \h9a, \h2f, \h5e, \hbc, \h63, \hc6, \h97, \h35, \h6a, \hd4, \hb3, \h7d, \hfa, \hef,
    \hc5, \h91, \h39, \h72, \he4, \hd3, \hbd, \h61, \hc2, \h9f, \h25, \h4a, \h94, \h33, \h66, \hcc,
    \h83, \h1d, \h3a, \h74, \he8, \hcb, \h8d, \h01, \h02, \h04, \h08, \h10, \h20, \h40, \h80, \h1b,
    \h36, \h6c, \hd8, \hab, \h4d, \h9a, \h2f, \h5e, \hbc, \h63, \hc6, \h97, \h35, \h6a, \hd4, \hb3,
    \h7d, \hfa, \hef, \hc5, \h91, \h39, \h72, \he4, \hd3, \hbd, \h61, \hc2, \h9f, \h25, \h4a, \h94,
    \h33, \h66, \hcc, \h83, \h1d, \h3a, \h74, \he8, \hcb, \h8d, \h01, \h02, \h04, \h08, \h10, \h20,
    \h40, \h80, \h1b, \h36, \h6c, \hd8, \hab, \h4d, \h9a, \h2f, \h5e, \hbc, \h63, \hc6, \h97, \h35,
    \h6a, \hd4, \hb3, \h7d, \hfa, \hef, \hc5, \h91, \h39, \h72, \he4, \hd3, \hbd, \h61, \hc2, \h9f,
    \h25, \h4a, \h94, \h33, \h66, \hcc, \h83, \h1d, \h3a, \h74, \he8, \hcb, \h8d, \h01, \h02, \h04,
    \h08, \h10, \h20, \h40, \h80, \h1b, \h36, \h6c, \hd8, \hab, \h4d, \h9a, \h2f, \h5e, \hbc, \h63,
    \hc6, \h97, \h35, \h6a, \hd4, \hb3, \h7d, \hfa, \hef, \hc5, \h91, \h39, \h72, \he4, \hd3, \hbd,
    \h61, \hc2, \h9f, \h25, \h4a, \h94, \h33, \h66, \hcc, \h83, \h1d, \h3a, \h74, \he8, \hcb, \h8d
    >>

\* sBox with its second entry mistyped as a copy of the first
sBoxTypo == [x \in Byte |-> IF x = 1 THEN sBoxData[1] ELSE sBoxData[x + 1]]

\* unsigned char sBox[256]
sBox == [x \in Byte |-> sBoxData[x + 1]]

\* unsigned char rcon[256]
rcon == [x \in Byte |-> rconData[x + 1]]

-----------------------------------------------------------------------------
(* The key schedule. *)

\* key_size and expanded_key_size as main passes them to expandKey
KeySize == 16
ExpandedKeySize == 176

\* f with f[idx] = v stored (the array cell is created if it was never written)
store(f, idx, v) == [j \in (DOMAIN f) \cup {idx} |-> IF j = idx THEN v ELSE f[j]]

\* key_schedule_core rotating the word to the right instead of to the left
key_schedule_core_rotr(t, ri) ==
    LET rot == [i \in Idx4 |-> IF i > 0 THEN t[i - 1] ELSE t[3]]
        sub == [i \in Idx4 |-> sBox[rot[i]]]
    IN  [sub EXCEPT ![0] = xor(sub[0], rcon[ri])]

\* key_schedule_core(t, rcon_i): the value of t on return
key_schedule_core(t, ri) ==
    LET rot == [i \in Idx4 |-> IF i < 3 THEN t[i + 1] ELSE t[0]]
        sub == [i \in Idx4 |-> sBox[rot[i]]]
    IN  [sub EXCEPT ![0] = xor(sub[0], rcon[ri])]

\* the copy loop of expandKey: expanded_key after it
expandCopy(k, key_size, ek) ==
    [j \in (DOMAIN ek) \cup (0..(key_size - 1)) |-> IF j < key_size THEN k[j] ELSE ek[j]]

\* whether an iteration of expandKey's while loop calls key_schedule_core
usesCore(csk, key_size) == csk % key_size = 0

\* the word t an iteration of the while loop XORs in
expandT(ek, csk, key_size, ri) ==
    LET t == [i \in Idx4 |-> ek[(csk - 4) + i]]
    IN  IF usesCore(csk, key_size) THEN key_schedule_core(t, ri) ELSE t

\* one iteration of expandKey's while loop: expanded_key after it
expandWord(ek, csk, key_size, ri) ==
    LET t  == expandT(ek, csk, key_size, ri)
        e1 == store(ek, csk,     xor(ek[csk     - key_size], t[0]))
        e2 == store(e1, csk + 1, xor(e1[csk + 1 - key_size], t[1]))
        e3 == store(e2, csk + 2, xor(e2[csk + 2 - key_size], t[2]))
    IN  store(e3, csk + 3, xor(e3[csk + 3 - key_size], t[3]))

\* the loop condition of expandKey's while loop, off by one word
expandMore_over(csk, expanded_key_size) == csk <= expanded_key_size

\* the loop condition of expandKey's while loop
expandMore(csk, expanded_key_size) == csk < expanded_key_size

-----------------------------------------------------------------------------
(* The block adapters. *)

\* a matrix with cell [i][j] set
put(m, i, j, v) == [m EXCEPT ![i][j] = v]

\* populateState that leaves state[0][0] of an already populated state alone
populateState_stale(te, st) ==
    LET fresh == [j \in Idx4 |-> [i \in Idx4 |-> te[j + 4 * i]]]
    IN  IF DOMAIN st = {} THEN fresh ELSE put(fresh, 0, 0, st[0][0])

\* populateState(to_encrypt, state): the state on return
populateState(te, st) == [j \in Idx4 |-> [i \in Idx4 |-> te[j + 4 * i]]]

\* populateRoundKey reading the round key one block too early
populateRoundKey_prev(ek, rk, it) ==
    [j \in Idx4 |-> [i \in Idx4 |-> ek[16 * (IF it > 0 THEN it - 1 ELSE it) + j + 4 * i]]]

\* populateRoundKey(expanded_key, round_key, iter): the round key on return
populateRoundKey(ek, rk, it) == [j \in Idx4 |-> [i \in Idx4 |-> ek[16 * it + j + 4 * i]]]

\* populateOutput(cipher, state): cipher on return
populateOutput(cipher, st) == [k \in 0..15 |-> st[k % 4][k \div 4]]

-----------------------------------------------------------------------------
(* The state transforms. *)

\* subBytes(state): the state on return
subBytes(st) == [i \in Idx4 |-> [j \in Idx4 |-> sBox[st[i][j]]]]

\* shiftRows with the last row rotated left by one instead of right by one
shiftRows_row3(st) ==
    [i \in Idx4 |-> [j \in Idx4 |->
        IF i = 3 THEN st[3][(j + 1) % 4] ELSE st[i][(j + i) % 4]]]

\* shiftRows(state): the state on return, assignment by assignment
shiftRows(st) ==
    LET \* Row 2
        t1 == st[1][0]
        a1 == put(st, 1, 0, st[1][1])
        a2 == put(a1, 1, 1, a1[1][2])
        a3 == put(a2, 1, 2, a2[1][3])
        a4 == put(a3, 1, 3, t1)
        \* Row 3
        t2 == a4[2][0]
        b1 == put(a4, 2, 0, a4[2][2])
        b2 == put(b1, 2, 2, t2)
        t3 == b2[2][1]
        b3 == put(b2, 2, 1, b2[2][3])
        b4 == put(b3, 2, 3, t3)
        \* Row 4
        t4 == b4[3][0]
        c1 == put(b4, 3, 0, b4[3][3])
        c2 == put(c1, 3, 3, c1[3][2])
        c3 == put(c2, 3, 2, c2[3][1])
    IN  put(c3, 3, 1, t4)

\* addRoundKey(state, round_key): the state on return
addRoundKey(st, rk) == [i \in Idx4 |-> [j \in Idx4 |-> xor(st[i][j], rk[i][j])]]

\* mixSingleColumn without the reduction by 0x1B
mixSingleColumn_noreduce(r) ==
    LET b == [c \in Idx4 |-> (r[c] * 2) % 256]
    IN  [c \in Idx4 |->
            xor(xor(xor(xor(b[c], r[(c + 3) % 4]), r[(c + 2) % 4]), b[(c + 1) % 4]),
                r[(c + 1) % 4])]

\* mixSingleColumn(r): r on return.  (signed char)r[c] >> 7 is taken as the arithmetic
\* shift the code's comment relies on.
mixSingleColumn(r) ==
    LET a == r
        \* h is 0xff if the high bit of r[c] is set, 0 otherwise
        h == [c \in Idx4 |-> IF r[c] >= 128 THEN 255 ELSE 0]
        \* b[c] = r[c] << 1, truncated to 8 bits, then b[c] ^= 0x1B & h
        b == [c \in Idx4 |-> xor((r[c] * 2) % 256, and(\h1B, h[c]))]
    IN  [c \in Idx4 |->
            CASE c = 0 -> xor(xor(xor(xor(b[0], a[3]), a[2]), b[1]), a[1])
              [] c = 1 -> xor(xor(xor(xor(b[1], a[0]), a[3]), b[2]), a[2])
              [] c = 2 -> xor(xor(xor(xor(b[2], a[1]), a[0]), b[3]), a[3])
              [] c = 3 -> xor(xor(xor(xor(b[3], a[2]), a[1]), b[0]), a[0])]

\* mixColumns(state): the state on return (the release of temp is not modelled)
mixColumns(st) ==
    LET col(i) == mixSingleColumn([j \in Idx4 |-> st[j][i]])
    IN  [j \in Idx4 |-> [i \in Idx4 |-> col(i)[j]]]

-----------------------------------------------------------------------------
(* The inputs the model draws from. *)

Zero16 == [i \in 1..16 |-> 0]
Ramp16 == [i \in 1..16 |-> i - 1]
Step16 == [i \in 1..16 |-> 17 * (i - 1)]

Keys   == {Zero16, Ramp16}
Blocks == {Zero16, Step16}
Tails  == {SubSeq(Step16, 17 - t, 16) : t \in {0, 1, 15}}

\* values an uninitialised byte of block[] may hold
Garbage == {0, 165, 255}

RECURSIVE Flatten(_)
Flatten(ss) == IF ss = << >> THEN << >> ELSE Head(ss) \o Flatten(Tail(ss))

BlockSeqs == UNION {[1..n -> Blocks] : n \in 0..MaxBlocks}

FullInputs  == {k \o Flatten(bs) \o tl : k \in Keys, bs \in BlockSeqs, tl \in Tails}
ShortInputs == {SubSeq(k, 1, 16 - m) : k \in Keys, m \in 1..MaxMissing}

\* keys for the key-schedule specification: every byte value in every position
ScheduleKeys == {[i \in 1..16 |-> (b + 7 * (i - 1)) % 256] : b \in Byte}

\* states for the transform harness: every byte value in every position, alone and in company
Ramp(b, s)   == [i \in Idx4 |-> [j \in Idx4 |-> (b + s * (4 * i + j)) % 256]]
Single(b, p) == [i \in Idx4 |-> [j \in Idx4 |-> IF 4 * i + j = p THEN b ELSE 0]]
HarnessStates ==
    {Ramp(b, s) : b \in Byte, s \in {0, 1, 17}} \cup {Single(b, p) : b \in Byte, p \in 0..15}

-----------------------------------------------------------------------------
(* main: the state after construction. *)

Start(in) ==
    /\ input = in
    /\ pos = 0
    /\ good = TRUE
    /\ pc = "readKey"
    /\ key = << >>
    /\ expanded_key = << >>
    /\ rcon_i = 0
    /\ current_size_of_key = 0
    /\ rcon_used = << >>
    /\ state = << >>
    /\ round_key = << >>
    /\ to_encrypt = << >>
    /\ iter = 0
    /\ trace = << >>
    /\ rks = << >>
    /\ output = << >>
    /\ nblocks = 0
    /\ orig = << >>
    /\ applied = "none"
    /\ count = 0

Init == \E in \in FullInputs \cup ShortInputs : Start(in)

InitK == \E in \in ScheduleKeys : Start(in)

InitT ==
    /\ state \in HarnessStates
    /\ orig = state
    /\ round_key = populateRoundKey([k \in 0..15 |-> 255 - 16 * k], << >>, 0)
    /\ pc = "harness"
    /\ applied = "none"
    /\ count = 0
    /\ input = << >>
    /\ pos = 0
    /\ good = TRUE
    /\ key = << >>
    /\ expanded_key = << >>
    /\ rcon_i = 0
    /\ current_size_of_key = 0
    /\ rcon_used = << >>
    /\ to_encrypt = << >>
    /\ iter = 0
    /\ trace = << >>
    /\ rks = << >>
    /\ output = << >>
    /\ nblocks = 0

-----------------------------------------------------------------------------
(* main: reading the key and expanding it. *)

Avail == Len(input) - pos

\* cin.read(block,16) for the key and the copy into key[]; the bytes of block[]
\* that a short read leaves unwritten are uninitialised
ReadKey ==
    /\ pc = "readKey"
    /\ LET n == IF Avail >= 16 THEN 16 ELSE Avail
       IN  /\ \E g \in [n..15 -> Garbage] :
                key' = [i \in 0..15 |-> IF i < n THEN input[pos + i + 1] ELSE g[i]]
           /\ pos' = pos + n
           /\ good' = (n = 16)
    /\ pc' = "expandCopy"
    /\ UNCHANGED << input, expanded_key, rcon_i, current_size_of_key, rcon_used, state,
                    round_key, to_encrypt, iter, trace, rks, output, nblocks, orig,
                    applied, count >>

\* expandKey up to its while loop
ExpandCopy ==
    /\ pc = "expandCopy"
    /\ rcon_i' = 1
    /\ expanded_key' = expandCopy(key, KeySize, expanded_key)
    /\ current_size_of_key' = KeySize
    /\ pc' = "expandLoop"
    /\ UNCHANGED << input, pos, good, key, rcon_used, state, round_key, to_encrypt, iter,
                    trace, rks, output, nblocks, orig, applied, count >>

\* one iteration of expandKey's while loop
ExpandWord ==
    /\ pc = "expandLoop"
    /\ expandMore(current_size_of_key, ExpandedKeySize)
    /\ expanded_key' = expandWord(expanded_key, current_size_of_key, KeySize, rcon_i)
    /\ rcon_used' = IF usesCore(current_size_of_key, KeySize)
                    THEN Append(rcon_used, rcon_i) ELSE rcon_used
    /\ rcon_i' = IF usesCore(current_size_of_key, KeySize) THEN rcon_i + 1 ELSE rcon_i
    /\ current_size_of_key' = current_size_of_key + 4
    /\ UNCHANGED << input, pos, good, pc, key, state, round_key, to_encrypt, iter, trace,
                    rks, output, nblocks, orig, applied, count >>

\* expandKey returns; main allocates state, round_key and to_encrypt
ExpandReturn ==
    /\ pc = "expandLoop"
    /\ ~ expandMore(current_size_of_key, ExpandedKeySize)
    /\ pc' = "read"
    /\ UNCHANGED << input, pos, good, key, expanded_key, rcon_i, current_size_of_key,
                    rcon_used, state, round_key, to_encrypt, iter, trace, rks, output,
                    nblocks, orig, applied, count >>

NextK == ReadKey \/ ExpandCopy \/ ExpandWord \/ ExpandReturn

\* expandKey is straight-line sequential code: a step that can be taken is taken
SpecK == InitK /\ [][NextK]_vars /\ WF_vars(NextK)

-----------------------------------------------------------------------------
(* main: the read loop and the round driver. *)

\* the round index of the last round, which has no mixColumns
LastRound == 10

\* the round driver with mixColumns in the last round too
afterShiftRows_mixAlways(it) == "mixColumns"

\* what follows shiftRows: mixColumns inside the for loop, addRoundKey in the last round
afterShiftRows(it) == IF it < LastRound THEN "mixColumns" ELSE "addRoundKey"

\* the read loop's condition wanting one byte more than a block
readSucceeds_strict(ok, avail) == ok /\ avail > 16

\* while(cin.read(block,16)): the read succeeds when the stream is good and holds 16 more bytes
readSucceeds(ok, avail) == ok /\ avail >= 16

\* a successful cin.read(block,16) and the copy into to_encrypt[]
ReadBlock ==
    /\ pc = "read"
    /\ readSucceeds(good, Avail)
    /\ to_encrypt' = [i \in 0..15 |-> input[pos + i + 1]]
    /\ pos' = pos + 16
    /\ nblocks' = nblocks + 1
    /\ trace' = << >>
    /\ rks' = << >>
    /\ pc' = "populateState"
    /\ UNCHANGED << input, good, key, expanded_key, rcon_i, current_size_of_key, rcon_used,
                    state, round_key, iter, output, orig, applied, count >>

\* a failed cin.read(block,16) ends the loop, and main returns
ReadFail ==
    /\ pc = "read"
    /\ ~ readSucceeds(good, Avail)
    /\ pos' = IF good THEN Len(input) ELSE pos
    /\ good' = FALSE
    /\ pc' = "exit"
    /\ UNCHANGED << input, key, expanded_key, rcon_i, current_size_of_key, rcon_used, state,
                    round_key, to_encrypt, iter, trace, rks, output, nblocks, orig, applied,
                    count >>

PopulateState ==
    /\ pc = "populateState"
    /\ state' = populateState(to_encrypt, state)
    /\ iter' = 0
    /\ pc' = "populateRoundKey"
    /\ UNCHANGED << input, pos, good, key, expanded_key, rcon_i, current_size_of_key,
                    rcon_used, round_key, to_encrypt, trace, rks, output, nblocks, orig,
                    applied, count >>

PopulateRoundKey ==
    /\ pc = "populateRoundKey"
    /\ round_key' = populateRoundKey(expanded_key, round_key, iter)
    /\ pc' = IF iter = 0 THEN "addRoundKey" ELSE "subBytes"
    /\ UNCHANGED << input, pos, good, key, expanded_key, rcon_i, current_size_of_key,
                    rcon_used, state, to_encrypt, iter, trace, rks, output, nblocks, orig,
                    applied, count >>

SubBytes ==
    /\ pc = "subBytes"
    /\ state' = subBytes(state)
    /\ trace' = Append(trace, "subBytes")
    /\ pc' = "shiftRows"
    /\ UNCHANGED << input, pos, good, key, expanded_key, rcon_i, current_size_of_key,
                    rcon_used, round_key, to_encrypt, iter, rks, output, nblocks, orig,
                    applied, count >>

ShiftRows ==
    /\ pc = "shiftRows"
    /\ state' = shiftRows(state)
    /\ trace' = Append(trace, "shiftRows")
    /\ pc' = afterShiftRows(iter)
    /\ UNCHANGED << input, pos, good, key, expanded_key, rcon_i, current_size_of_key,
                    rcon_used, round_key, to_encrypt, iter, rks, output, nblocks, orig,
                    applied, count >>

MixColumns ==
    /\ pc = "mixColumns"
    /\ state' = mixColumns(state)
    /\ trace' = Append(trace, "mixColumns")
    /\ pc' = "addRoundKey"
    /\ UNCHANGED << input, pos, good, key, expanded_key, rcon_i, current_size_of_key,
                    rcon_used, round_key, to_encrypt, iter, rks, output, nblocks, orig,
                    applied, count >>

\* addRoundKey, then the step to the next round (or, after the last, out of the rounds)
AddRoundKey ==
    /\ pc = "addRoundKey"
    /\ state' = addRoundKey(state, round_key)
    /\ trace' = Append(trace, "addRoundKey")
    /\ rks' = Append(rks, round_key)
    /\ iter' = IF iter < LastRound THEN iter + 1 ELSE iter
    /\ pc' = IF iter < LastRound THEN "populateRoundKey" ELSE "populateOutput"
    /\ UNCHANGED << input, pos, good, key, expanded_key, rcon_i, current_size_of_key,
                    rcon_used, round_key, to_encrypt, output, nblocks, orig, applied, count >>

PopulateOutput ==
    /\ pc = "populateOutput"
    /\ to_encrypt' = populateOutput(to_encrypt, state)
    /\ pc' = "write"
    /\ UNCHANGED << input, pos, good, key, expanded_key, rcon_i, current_size_of_key,
                    rcon_used, state, round_key, iter, trace, rks, output, nblocks, orig,
                    applied, count >>

\* cout << to_encrypt[i] for the 16 bytes
WriteOutput ==
    /\ pc = "write"
    /\ output' = output \o [i \in 1..16 |-> to_encrypt[i - 1]]
    /\ pc' = "read"
    /\ UNCHANGED << input, pos, good, key, expanded_key, rcon_i, current_size_of_key,
                    rcon_used, state, round_key, to_encrypt, iter, trace, rks, nblocks,
                    orig, applied, count >>

Next ==
    \/ ReadKey \/ ExpandCopy \/ ExpandWord \/ ExpandReturn
    \/ ReadBlock \/ ReadFail
    \/ PopulateState \/ PopulateRoundKey
    \/ SubBytes \/ ShiftRows \/ MixColumns \/ AddRoundKey
    \/ PopulateOutput \/ WriteOutput

Spec == Init /\ [][Next]_vars

-----------------------------------------------------------------------------
(* The transform harness: one transform applied repeatedly to a drawn state. *)

Apply(name, result) ==
    /\ pc = "harness"
    /\ applied \in {"none", name}
    /\ count < MaxApply
    /\ state' = result
    /\ applied' = name
    /\ count' = count + 1
    /\ UNCHANGED << input, pos, good, pc, key, expanded_key, rcon_i, current_size_of_key,
                    rcon_used, round_key, to_encrypt, iter, trace, rks, output, nblocks,
                    orig >>

ApplySubBytes    == Apply("subBytes", subBytes(state))
ApplyShiftRows   == Apply("shiftRows", shiftRows(state))
ApplyMixColumns  == Apply("mixColumns", mixColumns(state))
ApplyAddRoundKey == Apply("addRoundKey", addRoundKey(state, round_key))

NextT == ApplySubBytes \/ ApplyShiftRows \/ ApplyMixColumns \/ ApplyAddRoundKey

SpecT == InitT /\ [][NextT]_vars

-----------------------------------------------------------------------------
(* AES-128 encryption of one block as a function of the key and the block    *)
(* alone: expandKey run to completion, then the rounds of main on a fresh    *)
(* state.  The claims compare the program's output with it.                  *)

\* f over lo..hi and the 4x4 matrix m, tabulated cell by cell
RECURSIVE Tabulate(_, _, _)
Tabulate(f, lo, hi) ==
    IF lo = hi THEN lo :> f[lo]
    ELSE Tabulate(f, lo, (lo + hi) \div 2) @@ Tabulate(f, (lo + hi) \div 2 + 1, hi)

TabulateMatrix(m) == Tabulate([i \in Idx4 |-> Tabulate(m[i], 0, 3)], 0, 3)

\* The intermediate values are bound by quantification over a singleton, so that each
\* is computed once.

RECURSIVE ExpandFrom(_, _, _)
ExpandFrom(ek, csk, ri) ==
    IF ~ expandMore(csk, ExpandedKeySize) THEN ek
    ELSE CHOOSE res \in
            { ExpandFrom(e, csk + 4, IF usesCore(csk, KeySize) THEN ri + 1 ELSE ri) :
                e \in {Tabulate(expandWord(ek, csk, KeySize, ri), 0, csk + 3)} } : TRUE

Expanded(k) == ExpandFrom(Tabulate(expandCopy(k, KeySize, << >>), 0, KeySize - 1), KeySize, 1)

\* round r of main on state st: the loop body for r < 10, the last round for r = 10
Round(st, ek, r) ==
    LET rk == TabulateMatrix(populateRoundKey(ek, << >>, r))
        s1 == TabulateMatrix(subBytes(st))
        s2 == TabulateMatrix(shiftRows(s1))
        s3 == TabulateMatrix(mixColumns(s2))
    IN  TabulateMatrix(addRoundKey(IF r = LastRound THEN s2 ELSE s3, rk))

RECURSIVE Rounds(_, _, _)
Rounds(st, ek, r) ==
    IF r > LastRound THEN st
    ELSE CHOOSE res \in { Rounds(s, ek, r + 1) : s \in {Round(st, ek, r)} } : TRUE

\* the initial round of main on block b
InitialRound(b, ek) ==
    LET s  == TabulateMatrix(populateState(b, << >>))
        rk == TabulateMatrix(populateRoundKey(ek, << >>, 0))
    IN  TabulateMatrix(addRoundKey(s, rk))

\* the rounds of main on block b under the expanded key ek, as 16 output bytes (a sequence)
EncryptWith(ek, b) ==
    CHOOSE res \in
        { [i \in 1..16 |-> populateOutput(<< >>, s10)[i - 1]] :
            s10 \in { Rounds(s0, ek, 1) : s0 \in {InitialRound(b, ek)} } } : TRUE

\* the 16 ciphertext bytes (a sequence) for key k (an array) and block b (an array)
Encrypt(k, b) == CHOOSE res \in { EncryptWith(ek, b) : ek \in {Expanded(k)} } : TRUE

\* the number of complete blocks after the key, the i-th of them, the i-th output block
NumFull     == IF Len(input) >= 16 THEN (Len(input) - 16) \div 16 ELSE 0
InBlock(i)  == [k \in 0..15 |-> input[16 * i + k + 1]]
OutBlock(i) == SubSeq(output, 16 * (i - 1) + 1, 16 * i)

-----------------------------------------------------------------------------
(* C1 *)

KnownAnswer ==
    << \h66, \he9, \h4b, \hd4, \hef, \h8a, \h2c, \h3b,
       \h88, \h4c, \hfa, \h59, \hca, \h34, \h2b, \h2e >>

\* C1: with 16 zero key bytes followed by one all-zero block on input, the program's
\* output is nothing until the block is written and exactly the 16 bytes
\* 66 e9 4b d4 ef 8a 2c 3b 88 4c fa 59 ca 34 2b 2e from then on, to the end of main.
C1_KnownAnswer ==
    input = Zero16 \o Zero16 =>
        /\ output \in {<< >>, KnownAnswer}
        /\ (pc = "exit" \/ (pc = "read" /\ nblocks = 1)) => output = KnownAnswer

C1_Witness == input = Zero16 \o Zero16 /\ pc = "exit" /\ Len(output) = 16

-----------------------------------------------------------------------------
(* C2 *)

FullRound  == << "subBytes", "shiftRows", "mixColumns", "addRoundKey" >>
FinalRound == << "subBytes", "shiftRows", "addRoundKey" >>

ExpectedTrace ==
    << "addRoundKey" >> \o Flatten([r \in 1..9 |-> FullRound]) \o FinalRound

IsPrefix(a, b) == Len(a) <= Len(b) /\ a = SubSeq(b, 1, Len(a))

Occurrences(seq, x) == Cardinality({n \in 1..Len(seq) : seq[n] = x})

\* C2: for every block the transforms applied to the state are, in order, addRoundKey,
\* nine times (subBytes, shiftRows, mixColumns, addRoundKey), then subBytes, shiftRows,
\* addRoundKey: at every moment a prefix of that sequence, and all of it (11 addRoundKey,
\* 10 subBytes, 10 shiftRows, 9 mixColumns) when the block is handed to the output; the
\* n-th addRoundKey (n = 0..10) uses bytes 16n..16n+15 of the expanded key, byte k of
\* them against state[k mod 4][k div 4].
C2_RoundSequence ==
    /\ IsPrefix(trace, ExpectedTrace)
    /\ Len(rks) = Occurrences(trace, "addRoundKey")
    /\ \A n \in 1..Len(rks) : \A k \in 0..15 :
            rks[n][k % 4][k \div 4] = expanded_key[16 * (n - 1) + k]
    /\ pc \in {"populateOutput", "write"} =>
            /\ trace = ExpectedTrace
            /\ Occurrences(trace, "addRoundKey") = 11
            /\ Occurrences(trace, "subBytes") = 10
            /\ Occurrences(trace, "shiftRows") = 10
            /\ Occurrences(trace, "mixColumns") = 9
    /\ (pc = "read" /\ nblocks > 0) => trace = ExpectedTrace

C2_Witness == pc = "write" /\ nblocks = 2 /\ Len(trace) = 40 /\ Len(rks) = 11

-----------------------------------------------------------------------------
(* C3 *)

C3_Written ==
    /\ DOMAIN expanded_key \subseteq 0..175
    /\ pc = "read" =>
            /\ DOMAIN expanded_key = 0..175
            /\ \A i \in 0..15 : expanded_key[i] = key[i] /\ expanded_key[i] = input[i + 1]

\* C3: for any 16-byte key expandKey never writes outside bytes 0..175 of expanded_key,
\* it returns, and when it has returned every byte 0..175 is written and bytes 0..15 are
\* the 16 key bytes in order.
C3_ExpandedKeyLength == [] C3_Written /\ <> (pc = "read")

C3_Witness ==
    /\ pc = "read"
    /\ DOMAIN expanded_key = 0..175
    /\ \E i \in 0..15 : key[i] # 0

-----------------------------------------------------------------------------
(* C4 *)

\* C4: whenever the program is between blocks (or has ended), every ciphertext block
\* written so far is the encryption, under the key, of the plaintext block in the same
\* position of the input and of nothing else: the i-th output block is Encrypt(key, i-th
\* input block), whatever the other blocks are and whatever state, round_key and
\* to_encrypt held before.
C4_BlockIndependence ==
    pc \in {"read", "exit"} =>
        /\ Len(output) = 16 * nblocks
        /\ \A i \in 1..nblocks : OutBlock(i) = Encrypt(key, InBlock(i))

\* the second of two different blocks has been encrypted
C4_Witness ==
    /\ pc = "exit"
    /\ nblocks = 2
    /\ InBlock(1) # InBlock(2)
    /\ OutBlock(1) # OutBlock(2)

-----------------------------------------------------------------------------
(* C5 *)

RECURSIVE EncryptAll(_, _)
EncryptAll(k, n) == IF n = 0 THEN << >> ELSE EncryptAll(k, n - 1) \o Encrypt(k, InBlock(n))

\* C5: with 16 key bytes and n further bytes on input, the output always consists of
\* one 16-byte block per block read and completed so far, never more than floor(n/16) of
\* them; when the read loop has ended the output is exactly the floor(n/16) ciphertext
\* blocks, in the order of the plaintext blocks, and the trailing n mod 16 bytes have
\* produced nothing.
C5_OutputBlocks ==
    Len(input) >= 16 =>
        /\ Len(output) % 16 = 0
        /\ nblocks <= NumFull
        /\ Len(output) = 16 * (IF pc \in {"read", "exit", "readKey", "expandCopy", "expandLoop"}
                               THEN nblocks ELSE nblocks - 1)
        /\ pc = "exit" =>
                /\ nblocks = NumFull
                /\ Len(output) = 16 * NumFull
                /\ output = EncryptAll(key, NumFull)

\* two blocks and a trailing partial block have been read to the end
C5_Witness ==
    /\ pc = "exit"
    /\ Len(input) = 16 + 32 + 15
    /\ Len(output) = 32

-----------------------------------------------------------------------------
(* C6 *)

\* C6: when the input holds fewer than 16 bytes, expandKey is never entered and no byte
\* of expanded_key is ever written.
C6_ShortKeyRejected ==
    Len(input) < 16 => (DOMAIN expanded_key = {} /\ rcon_i = 0 /\ current_size_of_key = 0)

-----------------------------------------------------------------------------
(* C7 *)

\* word w of expanded_key, and the words of the Rijndael key schedule
Word(w)    == [i \in Idx4 |-> expanded_key[4 * w + i]]
RotWord(t) == [i \in Idx4 |-> t[(i + 1) % 4]]
SubWord(t) == [i \in Idx4 |-> sBox[t[i]]]
Temp(w) ==
    IF w % 4 # 0 THEN Word(w - 1)
    ELSE [i \in Idx4 |-> IF i = 0 THEN xor(SubWord(RotWord(Word(w - 1)))[0], rcon[w \div 4])
                         ELSE SubWord(RotWord(Word(w - 1)))[i]]

\* the number of words 4..w-1 with index a multiple of 4, w being the next word to write
CoresBefore(w) == (w - 1) \div 4

\* C7: every word w in 4..43 that expandKey has written is word w-4 XOR temp, temp being
\* word w-1, rotated left by one byte, substituted through the S-box and with its first
\* byte XORed with Rcon[w/4] when w is a multiple of 4; rcon_i starts at 1, is one more
\* than the number of core transforms done, which is the number of words written so far
\* whose index is a multiple of 4; the Rcon indices used are 1, 2, ... in order, and
\* exactly 1..10 when expandKey has returned.
C7_KeySchedule ==
    pc \in {"expandLoop", "read"} =>
        /\ \A w \in 4..43 :
                (4 * w + 3) \in DOMAIN expanded_key =>
                    \A i \in Idx4 : Word(w)[i] = xor(Word(w - 4)[i], Temp(w)[i])
        /\ rcon_i = 1 + Len(rcon_used)
        /\ Len(rcon_used) = CoresBefore(current_size_of_key \div 4)
        /\ \A n \in 1..Len(rcon_used) : rcon_used[n] = n
        /\ pc = "read" => rcon_used = << 1, 2, 3, 4, 5, 6, 7, 8, 9, 10 >>

C7_Witness ==
    /\ pc = "read"
    /\ (4 * 43 + 3) \in DOMAIN expanded_key
    /\ Len(rcon_used) = 10
    /\ key[0] = 200

-----------------------------------------------------------------------------
(* C8 *)

\* multiplication by 2 and by 3 in GF(2^8) modulo x^8 + x^4 + x^3 + x + 1
Mul2(x) == xor((x * 2) % 256, IF x >= 128 THEN 27 ELSE 0)
Mul3(x) == xor(Mul2(x), x)

\* C8: one mixColumns turns every column c of the state into the product of the matrix
\* [02 03 01 01; 01 02 03 01; 01 01 02 03; 03 01 01 02] with that column:
\* state[i][c] = 2*o[i] XOR 3*o[i+1 mod 4] XOR o[i+2 mod 4] XOR o[i+3 mod 4], o being
\* column c before; every result is a byte.
C8_MixColumns ==
    (applied = "mixColumns" /\ count = 1) =>
        \A c \in Idx4 : \A i \in Idx4 :
            /\ state[i][c] \in Byte
            /\ state[i][c] = xor(xor(Mul2(orig[i][c]), Mul3(orig[(i + 1) % 4][c])),
                                 xor(orig[(i + 2) % 4][c], orig[(i + 3) % 4][c]))

\* a column with high bits set and four different bytes has been mixed
C8_Witness ==
    /\ applied = "mixColumns"
    /\ count = 1
    /\ orig = Ramp(200, 17)
    /\ state # orig

-----------------------------------------------------------------------------
(* C9 *)

Cells(m) == {m[i][j] : i \in Idx4, j \in Idx4}
Times(m, v) == Cardinality({ij \in Idx4 \X Idx4 : m[ij[1]][ij[2]] = v})

\* C9: after n applications of shiftRows, state[r][c] holds the original
\* state[r][(c + n*r) mod 4]: one application rotates row r left by r, four restore the
\* state; every byte value occurs as often as before.
C9_ShiftRows ==
    applied = "shiftRows" =>
        /\ \A r \in Idx4 : \A c \in Idx4 : state[r][c] = orig[r][(c + count * r) % 4]
        /\ count = 4 => state = orig
        /\ \A v \in Cells(orig) \cup Cells(state) : Times(state, v) = Times(orig, v)

\* shiftRows has been applied four times to a state of 16 different bytes
C9_Witness ==
    /\ applied = "shiftRows"
    /\ count = 4
    /\ orig = Ramp(0, 1)

-----------------------------------------------------------------------------
(* C10 *)

\* every byte value occurs exactly once in sBox
SBoxPermutation == \A y \in Byte : Cardinality({x \in Byte : sBox[x] = y}) = 1

\* an inverse substitution table (0 where sBox lacks the value)
InvSBox ==
    [y \in Byte |-> IF \E x \in Byte : sBox[x] = y THEN CHOOSE x \in Byte : sBox[x] = y ELSE 0]

InvSubBytes(st) == [i \in Idx4 |-> [j \in Idx4 |-> InvSBox[st[i][j]]]]

\* C10: every byte value occurs exactly once among the 256 entries of sBox, and the
\* inverse substitution applied after subBytes gives back the state subBytes was
\* applied to.
C10_SubBytesBijective ==
    /\ SBoxPermutation
    /\ (applied = "subBytes" /\ count = 1) => InvSubBytes(state) = orig

C10_Witness ==
    /\ applied = "subBytes"
    /\ count = 1
    /\ orig = Single(1, 5)

====
